---- MODULE Spec2Model ----
(***************************************************************************)
(* Two-phase append protocol of a vsb storage block                        *)
(* (internal/store/vsb/block_append.go).                                   *)
(*                                                                         *)
(* The block file is a sequence of cells, one cell per encoded unit of an  *)
(* entry.  An entry of encoded size n occupies n consecutive cells; every  *)
(* cell carries the entry's length, type and sequence number and its own   *)
(* position in the entry, so that an entry can be decoded from its first   *)
(* cell (Unmarshal) and from its last cell (UnmarshalLast).  Timestamps    *)
(* and attributes of entries play no part in the protocol and are left     *)
(* out of the cells.                                                       *)
(***************************************************************************)
EXTENDS Integers, Sequences, FiniteSets, TLC

\* ------------------------------------------------------------------ bounds
\* Cells of the data region that detached contexts may run over.
MaxData == 3
\* Fragments the replicator holds at any time (results of Prepare calls).
MaxFrags == 3
\* Largest encoded size of a CloudEvent entry, in cells.
MaxEntrySize == 2
\* Fragments handed to one CommitAppend call.
MaxCommit == 2
\* Entries handed to one PrepareAppend call.
MaxEntries == 2

\* Detached append contexts carried by the replicator.
Ctxs == {"c1"}

\* --------------------------------------------------------- block parameters
\* vsBlock.dataOffset: the offset where entry data begins.
DataOffset == 64
\* vsBlock.capacity: soft upper bound on data cells.
Capacity == 2
\* Sequence number of the first entry of a fresh block.
FirstSeq == 0
\* Encoded size of an End entry (it has no payload).
EndSize == 1

Max(a, b) == IF a >= b THEN a ELSE b

\* ------------------------------------------------------------------- codec
\* An unwritten cell of the file or of a freshly made buffer.
Nil == [n |-> 0, typ |-> "Nil", seq |-> 0, k |-> 0]

\* wrapEntry(entry, type, seq, now): the entry to encode; size is its encoded size.
wrapEntry(size, typ, seq) == [typ |-> typ, seq |-> seq, size |-> size]

\* enc.Size(entry)
Size(entry) == entry.size

\* enc.MarshalTo(entry, buf): the cells of the encoded entry.
Marshal(entry) ==
  [k \in 1..entry.size |-> [n |-> entry.size, typ |-> entry.typ, seq |-> entry.seq, k |-> k]]

\* dec.Unmarshal(bytes): decodes the entry that starts at the first cell.
Unmarshal(bytes) ==
  [n |-> bytes[1].n,
   entry |-> [typ |-> bytes[1].typ, seq |-> bytes[1].seq, size |-> bytes[1].n]]

\* dec.UnmarshalLast(bytes): decodes the entry that ends at the last cell.
UnmarshalLast(bytes) ==
  LET c == bytes[Len(bytes)] IN
  [n |-> c.n, entry |-> [typ |-> c.typ, seq |-> c.seq, size |-> c.n]]

\* ceschema.SequenceNumber / ceschema.EntryType
SequenceNumber(entry) == entry.seq
EntryType(entry) == entry.typ

\* ---------------------------------------------------------------- fragment
RECURSIVE MarshalAll(_)
MarshalAll(ents) ==
  IF ents = <<>> THEN <<>> ELSE Marshal(Head(ents)) \o MarshalAll(Tail(ents))

\* newFragment(offset, entries, enc)
newFragment(off, ents) == [startOffset |-> off, payload |-> MarshalAll(ents)]

StartOffset(frag) == frag.startOffset
FragSize(frag) == Len(frag.payload)
EndOffset(frag) == frag.startOffset + Len(frag.payload)

\* ------------------------------------------------------------------- index
\* index.NewIndex(offset, length, index.WithEntry(entry))
NewIndex(off, n, entry) == [offset |-> off, length |-> n, seq |-> SequenceNumber(entry)]

\* ------------------------------------------------------------------- file
\* f.WriteAt(data, off) on the data region; offsets below DataOffset belong to the header.
WriteAt(f, data, off) ==
  LET p == off - DataOffset
      newLen == Max(Len(f), p + Len(data))
  IN [i \in 1..newLen |->
        IF i > p /\ i <= p + Len(data) THEN data[i - p]
        ELSE IF i <= Len(f) THEN f[i] ELSE Nil]

\* ------------------------------------------------- CommitAppend: validation
\* trimCase with < for <= in its first case.
trimCaseStrict(frag, off) ==
  IF EndOffset(frag) < off THEN "written"
  ELSE IF StartOffset(frag) > off THEN "missing"
  ELSE "keep"

\* trimCase without its second case.
trimCaseNoGap(frag, off) ==
  IF EndOffset(frag) <= off THEN "written" ELSE "keep"

\* trimFragments, the switch on one fragment: "written" (skip it), "missing"
\* (a gap before it) or "keep".
trimCase(frag, off) ==
  IF EndOffset(frag) <= off THEN "written"
  ELSE IF StartOffset(frag) > off THEN "missing"
  ELSE "keep"

\* trimFrom returning frags for frags[i:] when it keeps frags[i].
RECURSIVE trimFromWhole(_, _, _)
trimFromWhole(off, frags, i) ==
  IF i > Len(frags) THEN [frags |-> <<>>, err |-> "nil"]
  ELSE IF trimCase(frags[i], off) = "written" THEN trimFromWhole(off, frags, i + 1)
  ELSE IF trimCase(frags[i], off) = "missing" THEN [frags |-> <<>>, err |-> "Internal"]
  ELSE [frags |-> frags, err |-> "nil"]

\* The loop of trimFragments from index i: the fragments kept and the error.
RECURSIVE trimFrom(_, _, _)
trimFrom(off, frags, i) ==
  IF i > Len(frags) THEN [frags |-> <<>>, err |-> "nil"]
  ELSE IF trimCase(frags[i], off) = "written" THEN trimFrom(off, frags, i + 1)
  ELSE IF trimCase(frags[i], off) = "missing" THEN [frags |-> <<>>, err |-> "Internal"]
  ELSE [frags |-> SubSeq(frags, i, Len(frags)), err |-> "nil"]

\* vsBlock.trimFragments, with off = b.actx.offset
trimFragments(off, frags) == trimFrom(off, frags, 1)

\* vsBlock.checkFragments
checkFragments(frags) ==
  IF \A i \in 2..Len(frags) : EndOffset(frags[i - 1]) = StartOffset(frags[i])
  THEN "nil" ELSE "Internal"

RECURSIVE SumSizes(_)
SumSizes(frags) ==
  IF frags = <<>> THEN 0 ELSE FragSize(Head(frags)) + SumSizes(Tail(frags))

\* copy(data[pos:], src)
CopyAt(data, pos, src) ==
  [i \in 1..Len(data) |-> IF i > pos /\ i <= pos + Len(src) THEN src[i - pos] ELSE data[i]]

RECURSIVE CopyFrags(_, _, _)
CopyFrags(data, base, frags) ==
  IF frags = <<>> THEN data
  ELSE CopyFrags(CopyAt(data, StartOffset(Head(frags)) - base, Head(frags).payload),
                 base, Tail(frags))

\* CommitAppend, the coalescing of the kept fragments into one buffer.
Coalesce(frags) ==
  CopyFrags([i \in 1..SumSizes(frags) |-> Nil], StartOffset(frags[1]), frags)

\* buildIndexes, the switch on the sequence number of a decoded entry:
\* "accept" (seq == expected), "skip" (the continue) or "corrupt" (default).
seqCase(seq, expected, nIndexes) ==
  IF seq = expected THEN "accept"
  ELSE IF seq < expected /\ nIndexes = 0 THEN "skip"
  ELSE "corrupt"

\* buildIndexes, "End entry must be the last": off+n == sz
endIsLast(off, n, sz) == off + n = sz

\* The loop of buildIndexes from position off.  The "skip" case continues the
\* loop without advancing off, so the next iteration decodes the same entry
\* with the same expected and indexes: err "loop" stands for this loop that
\* never ends.
RECURSIVE buildLoop(_, _, _, _, _, _)
buildLoop(seq0, base, data, off, expected, indexes) ==
  IF off >= Len(data)
  THEN [indexes |-> indexes, entryCount |-> expected - seq0, archived |-> FALSE, err |-> "nil"]
  ELSE
    LET u == Unmarshal(SubSeq(data, off + 1, Len(data)))
        n == u.n
        entry == u.entry
        c == seqCase(SequenceNumber(entry), expected, Len(indexes))
        fail == [indexes |-> <<>>, entryCount |-> 0, archived |-> FALSE, err |-> "Corrupted"]
    IN
    IF c = "skip"
    THEN [indexes |-> <<>>, entryCount |-> 0, archived |-> FALSE, err |-> "loop"]
    ELSE IF c = "corrupt" THEN fail
    ELSE IF EntryType(entry) = "End"
    THEN IF ~endIsLast(off, n, Len(data)) THEN fail
         ELSE [indexes |-> indexes, entryCount |-> (expected + 1) - seq0,
               archived |-> TRUE, err |-> "nil"]
    ELSE buildLoop(seq0, base, data, off + n, expected + 1,
                   Append(indexes, NewIndex(base + off, n, entry)))

\* buildIndexes counting the index records only.
buildIndexesIndexed(seq0, base, data) ==
  LET r == buildLoop(seq0, base, data, 0, seq0, <<>>) IN
  [r EXCEPT !.entryCount = Len(r.indexes)]

\* vsBlock.buildIndexes, with seq0 = b.actx.seq
buildIndexes(seq0, base, data) == buildLoop(seq0, base, data, 0, seq0, <<>>)

Ret(archived, err) == [archived |-> archived, err |-> err]

\* CommitAppend up to the file write: what the call does next.
\*   kind "ret":   it returns ret without touching the block;
\*   kind "loop":  buildIndexes never returns;
\*   kind "write": it writes data at offset at, then commits indexes.
CommitPlan(a, frags) ==
  LET t == trimFragments(a.offset, frags) IN
  IF t.err # "nil" THEN [kind |-> "ret", ret |-> Ret(FALSE, t.err)]
  ELSE IF Len(t.frags) = 0 THEN [kind |-> "ret", ret |-> Ret(FALSE, "nil")]
  ELSE IF checkFragments(t.frags) # "nil"
  THEN [kind |-> "ret", ret |-> Ret(FALSE, checkFragments(t.frags))]
  ELSE
    LET data == Coalesce(t.frags)
        base == StartOffset(t.frags[1])
        bi == buildIndexes(a.seq, base, data)
    IN
    IF bi.err = "loop" THEN [kind |-> "loop"]
    ELSE IF bi.err # "nil" THEN [kind |-> "ret", ret |-> Ret(FALSE, bi.err)]
    ELSE IF ~bi.archived /\ Len(bi.indexes) = 0 THEN [kind |-> "ret", ret |-> Ret(FALSE, "nil")]
    ELSE [kind |-> "write",
          data |-> SubSeq(data, (a.offset - base) + 1, Len(data)),
          at |-> a.offset,
          indexes |-> bi.indexes,
          entryCount |-> bi.entryCount,
          archived |-> bi.archived]

\* ------------------------------------------------------------------- state
VARIABLES
  actx,         \* b.actx: the canonical append context
  indexes,      \* b.indexes: the in-memory index table
  file,         \* b.f: cells of the file from DataOffset on
  indexOffset,  \* b.indexOffset
  indexLength,  \* b.indexLength
  header,       \* the block header as last persisted
  bg,           \* background tasks spawned by archiving commits (b.wg)
  lisCount,     \* calls of b.lis.OnArchived so far
  dctx,         \* the detached append contexts, NoCtx before NewAppendContext
  pool,         \* the fragments returned by Prepare calls
  pc,           \* position of the CommitAppend caller: "idle", "lock", "snapshot",
                \* "loop" or "returned"
  pend,         \* locals of the CommitAppend in flight
  call,         \* the CommitAppend call in flight or just returned: its fragments
                \* and the block as it found it
  ret           \* what that call returned, until the caller takes it

vars == <<actx, indexes, file, indexOffset, indexLength, header, bg, lisCount,
          dctx, pool, pc, pend, call, ret>>

blockVars == <<actx, indexes, file, indexOffset, indexLength, header, bg, lisCount>>

NoCtx == [seq |-> -1, offset |-> -1, archived |-> 0]
NoPend == [indexes |-> <<>>, entryCount |-> 0, entrySize |-> 0, archived |-> FALSE]
NoRet == Ret(FALSE, "none")

NoBlock == [actx |-> NoCtx, indexes |-> <<>>, file |-> <<>>, lisCount |-> 0]
NoCall == [made |-> FALSE, frags |-> <<>>, cancelled |-> FALSE, pre |-> NoBlock]

\* The block as a CommitAppend call finds it.
Block == [actx |-> actx, indexes |-> indexes, file |-> file, lisCount |-> lisCount]
\* cancelled: ctx of the call is already cancelled when CommitAppend is entered.
Call(frags, cancelled) ==
  [made |-> TRUE, frags |-> frags, cancelled |-> cancelled, pre |-> Block]

Init ==
  /\ actx = [seq |-> FirstSeq, offset |-> DataOffset, archived |-> 0]
  /\ indexes = <<>>
  /\ file = <<>>
  /\ indexOffset = 0
  /\ indexLength = 0
  /\ header = [persisted |-> FALSE, archived |-> FALSE, writeOffset |-> DataOffset,
               indexOffset |-> 0, indexLength |-> 0]
  /\ bg = <<>>
  /\ lisCount = 0
  /\ dctx = [c \in Ctxs |-> NoCtx]
  /\ pool = {}
  /\ pc = "idle"
  /\ pend = NoPend
  /\ call = NoCall
  /\ ret = NoRet

\* ------------------------------------------------------------ prepare phase
\* The canonical context once the CommitAppend in flight has left its locked
\* section; the canonical context itself when none is in it.
NextActx ==
  IF pc = "lock"
  THEN [seq |-> actx.seq + pend.entryCount,
        offset |-> actx.offset + pend.entrySize,
        archived |-> IF pend.archived THEN 1 ELSE actx.archived]
  ELSE actx

\* NewAppendContext(nil): a copy of the canonical context.  The copy is made
\* without b.mu, so each field read while a CommitAppend is in its locked
\* section is the field before or after that section.
NewAppendContextNil(c) ==
  /\ pc # "returned"
  /\ Cardinality(pool) < MaxFrags
  /\ \E s \in {actx.seq, NextActx.seq}, o \in {actx.offset, NextActx.offset},
        a \in {actx.archived, NextActx.archived} :
       dctx' = [dctx EXCEPT ![c] = [seq |-> s, offset |-> o, archived |-> a]]
  /\ UNCHANGED <<blockVars, pool, pc, pend, call, ret>>

\* NewAppendContext(last): the context that follows the last entry of last.
NewAppendContextLast(c, last) ==
  /\ pc # "returned"
  /\ last \in pool
  /\ Cardinality(pool) < MaxFrags
  /\ FragSize(last) > 0
  /\ LET entry == UnmarshalLast(last.payload).entry IN
     dctx' = [dctx EXCEPT ![c] =
                [seq |-> SequenceNumber(entry) + 1,
                 offset |-> EndOffset(last),
                 archived |-> IF EntryType(entry) = "End" THEN 1 ELSE 0]]
  /\ UNCHANGED <<blockVars, pool, pc, pend, call, ret>>

\* The sizes of the entries handed to one PrepareAppend call.
EntrySizes == UNION {[1..n -> 1..MaxEntrySize] : n \in 1..MaxEntries}

\* prepareAppend advancing the context by one sequence number, whatever num is.
prepareAppendOne(a, sizes) ==
  LET num == Len(sizes)
      ents == [i \in 1..num |-> wrapEntry(sizes[i], "CloudEvent", a.seq + (i - 1))]
      seqs == [i \in 1..num |-> a.seq + (i - 1)]
      frag == newFragment(a.offset, ents)
      after == [a EXCEPT !.offset = a.offset + FragSize(frag), !.seq = a.seq + 1]
  IN [seqs |-> seqs, frag |-> frag,
      full |-> (after.offset - DataOffset) >= Capacity, actx |-> after]

\* PrepareAppend: what it returns and the detached context it leaves.
prepareAppend(a, sizes) ==
  LET num == Len(sizes)
      ents == [i \in 1..num |-> wrapEntry(sizes[i], "CloudEvent", a.seq + (i - 1))]
      seqs == [i \in 1..num |-> a.seq + (i - 1)]
      frag == newFragment(a.offset, ents)
      after == [a EXCEPT !.offset = a.offset + FragSize(frag), !.seq = a.seq + num]
  IN [seqs |-> seqs, frag |-> frag,
      full |-> (after.offset - DataOffset) >= Capacity, actx |-> after]

\* prepareArchive without the advance of seq.
prepareArchiveNoSeq(a) ==
  LET end == wrapEntry(EndSize, "End", a.seq)
      frag == newFragment(a.offset, <<end>>)
  IN [frag |-> frag,
      actx |-> [seq |-> a.seq, offset |-> a.offset + FragSize(frag), archived |-> 1]]

\* PrepareArchive: the fragment it returns and the detached context it leaves.
prepareArchive(a) ==
  LET end == wrapEntry(EndSize, "End", a.seq)
      frag == newFragment(a.offset, <<end>>)
  IN [frag |-> frag,
      actx |-> [seq |-> a.seq + 1, offset |-> a.offset + FragSize(frag), archived |-> 1]]

\* The replicator can hold the new fragment.
CanHold(frag) ==
  /\ EndOffset(frag) <= DataOffset + MaxData
  /\ frag \notin pool => Cardinality(pool) < MaxFrags

\* PrepareAppend writing the fragment to the file.
PrepareAppendWrites(c, sizes) ==
  /\ pc # "returned"
  /\ dctx[c] # NoCtx
  /\ LET r == prepareAppend(dctx[c], sizes) IN
     /\ CanHold(r.frag)
     /\ dctx' = [dctx EXCEPT ![c] = r.actx]
     /\ pool' = pool \cup {r.frag}
     /\ file' = WriteAt(file, r.frag.payload, StartOffset(r.frag))
  /\ UNCHANGED <<actx, indexes, indexOffset, indexLength, header, bg, lisCount,
                 pc, pend, call, ret>>

PrepareAppend(c, sizes) ==
  /\ pc # "returned"
  /\ dctx[c] # NoCtx
  /\ LET r == prepareAppend(dctx[c], sizes) IN
     /\ CanHold(r.frag)
     /\ dctx' = [dctx EXCEPT ![c] = r.actx]
     /\ pool' = pool \cup {r.frag}
  /\ UNCHANGED <<blockVars, pc, pend, call, ret>>

\* PrepareArchive setting archived on the canonical context as well.
PrepareArchiveCanonical(c) ==
  /\ pc # "returned"
  /\ dctx[c] # NoCtx
  /\ LET r == prepareArchive(dctx[c]) IN
     /\ CanHold(r.frag)
     /\ dctx' = [dctx EXCEPT ![c] = r.actx]
     /\ pool' = pool \cup {r.frag}
  /\ actx' = [actx EXCEPT !.archived = 1]
  /\ UNCHANGED <<indexes, file, indexOffset, indexLength, header, bg, lisCount,
                 pc, pend, call, ret>>

PrepareArchive(c) ==
  /\ pc # "returned"
  /\ dctx[c] # NoCtx
  /\ LET r == prepareArchive(dctx[c]) IN
     /\ CanHold(r.frag)
     /\ dctx' = [dctx EXCEPT ![c] = r.actx]
     /\ pool' = pool \cup {r.frag}
  /\ UNCHANGED <<blockVars, pc, pend, call, ret>>

\* ------------------------------------------------------------- commit phase
\* The fragment lists the replicator may deliver: distinct fragments it
\* holds, in the order of their start offsets.
FragLists ==
  {q \in UNION {[1..n -> pool] : n \in 0..MaxCommit} :
     \A i \in 1..Len(q), j \in 1..Len(q) :
        i < j => (q[i] # q[j] /\ StartOffset(q[i]) <= StartOffset(q[j]))}

\* CommitAppend advancing b.actx.offset by what a failed write put on the file.
CommitAppendEager(frags, cancelled) ==
  /\ pc = "idle"
  /\ call' = Call(frags, cancelled)
  /\ LET plan == CommitPlan(actx, frags) IN
     \/ /\ plan.kind = "ret"
        /\ ret' = plan.ret
        /\ pc' = "returned"
        /\ UNCHANGED <<file, pend, actx>>
     \/ /\ plan.kind = "loop"
        /\ pc' = "loop"
        /\ UNCHANGED <<file, pend, ret, actx>>
     \/ /\ plan.kind = "write"
        /\ file' = WriteAt(file, plan.data, plan.at)
        /\ pend' = [indexes |-> plan.indexes, entryCount |-> plan.entryCount,
                    entrySize |-> Len(plan.data), archived |-> plan.archived]
        /\ pc' = "lock"
        /\ UNCHANGED <<ret, actx>>
     \/ /\ plan.kind = "write"
        /\ \E k \in 0..(Len(plan.data) - 1) :
              /\ file' = WriteAt(file, SubSeq(plan.data, 1, k), plan.at)
              /\ actx' = [actx EXCEPT !.offset = @ + k]
        /\ ret' = Ret(FALSE, "IO")
        /\ pc' = "returned"
        /\ UNCHANGED pend
  /\ UNCHANGED <<indexes, indexOffset, indexLength, header, bg, lisCount, dctx, pool>>

\* CommitAppend(ctx, frags) up to its first suspension point.  ctx is handed to
\* the tracer and the logger only; no step reads ctx.Done() or ctx.Err(), so
\* the call runs the same whether ctx is cancelled or not.  It returns early
\* (an error of trimFragments, checkFragments or buildIndexes, or nothing left
\* to commit), or it never leaves the loop of buildIndexes, or it writes the
\* file; b.f.WriteAt succeeds, or fails after k cells.
CommitAppend(frags, cancelled) ==
  /\ pc = "idle"
  /\ call' = Call(frags, cancelled)
  /\ LET plan == CommitPlan(actx, frags) IN
     \/ /\ plan.kind = "ret"
        /\ ret' = plan.ret
        /\ pc' = "returned"
        /\ UNCHANGED <<file, pend>>
     \/ /\ plan.kind = "loop"
        /\ pc' = "loop"
        /\ UNCHANGED <<file, pend, ret>>
     \/ /\ plan.kind = "write"
        /\ file' = WriteAt(file, plan.data, plan.at)
        /\ pend' = [indexes |-> plan.indexes, entryCount |-> plan.entryCount,
                    entrySize |-> Len(plan.data), archived |-> plan.archived]
        /\ pc' = "lock"
        /\ UNCHANGED ret
     \/ /\ plan.kind = "write"
        /\ \E k \in 0..(Len(plan.data) - 1) :
              file' = WriteAt(file, SubSeq(plan.data, 1, k), plan.at)
        /\ ret' = Ret(FALSE, "IO")
        /\ pc' = "returned"
        /\ UNCHANGED pend
  /\ UNCHANGED <<actx, indexes, indexOffset, indexLength, header, bg, lisCount, dctx, pool>>

\* lockedSection without the advance of b.actx.offset.
lockedSectionNoOffset(a, idx, p) ==
  [indexes |-> idx \o p.indexes,
   actx |-> [seq |-> a.seq + p.entryCount,
             offset |-> a.offset,
             archived |-> IF p.archived THEN 1 ELSE a.archived]]

\* The section under b.mu: the new index records are appended, b.actx.seq and
\* b.actx.offset advance and b.actx.archived is stored.
lockedSection(a, idx, p) ==
  [indexes |-> idx \o p.indexes,
   actx |-> [seq |-> a.seq + p.entryCount,
             offset |-> a.offset + p.entrySize,
             archived |-> IF p.archived THEN 1 ELSE a.archived]]

\* A commit that archives nothing runs the locked section and returns (false, nil).
CommitLocked ==
  /\ pc = "lock"
  /\ ~pend.archived
  /\ indexes' = lockedSection(actx, indexes, pend).indexes
  /\ actx' = lockedSection(actx, indexes, pend).actx
  /\ pc' = "returned"
  /\ pend' = NoPend
  /\ ret' = Ret(FALSE, "nil")
  /\ UNCHANGED <<file, indexOffset, indexLength, header, bg, lisCount, dctx, pool, call>>

\* An archiving commit runs the locked section.
CommitLockedArchived ==
  /\ pc = "lock"
  /\ pend.archived
  /\ indexes' = lockedSection(actx, indexes, pend).indexes
  /\ actx' = lockedSection(actx, indexes, pend).actx
  /\ pc' = "snapshot"
  /\ UNCHANGED <<file, indexOffset, indexLength, header, bg, lisCount, dctx, pool, pend,
                 call, ret>>

\* makeSnapshot(b.actx, b.indexes)
makeSnapshot(a, idx) ==
  [m |-> [writeOffset |-> a.offset, archived |-> a.archived # 0, entryNum |-> Len(idx)],
   i |-> idx]

\* The archiving commit snapshots the block, spawns the background task,
\* calls b.lis.OnArchived and returns (true, nil).
CommitArchive ==
  /\ pc = "snapshot"
  /\ LET snap == makeSnapshot(actx, indexes) IN
     bg' = Append(bg, [pc |-> "index", m |-> snap.m, i |-> snap.i])
  /\ lisCount' = lisCount + 1
  /\ pc' = "returned"
  /\ pend' = NoPend
  /\ ret' = Ret(TRUE, "nil")
  /\ UNCHANGED <<actx, indexes, file, indexOffset, indexLength, header, dctx, pool, call>>

\* The caller takes the result of the call.
CommitTaken ==
  /\ pc = "returned"
  /\ pc' = "idle"
  /\ call' = NoCall
  /\ ret' = NoRet
  /\ UNCHANGED <<blockVars, dctx, pool, pend>>

\* ----------------------------------------------------- background archival
\* index.NewEntry(indexes) and its encoding: one cell and one more per index.
IndexEntry(idx) == Marshal(wrapEntry(1 + Len(idx), "Index", 0))

RemoveAt(q, j) == SubSeq(q, 1, j - 1) \o SubSeq(q, j + 1, Len(q))

\* The background task: appendIndexEntry(ctx, i, m.writeOffset) succeeds and
\* b.indexOffset, b.indexLength are recorded.
BgAppendIndexEntry(j) ==
  /\ pc # "returned"
  /\ bg[j].pc = "index"
  /\ file' = WriteAt(file, IndexEntry(bg[j].i), bg[j].m.writeOffset)
  /\ indexOffset' = bg[j].m.writeOffset
  /\ indexLength' = Len(IndexEntry(bg[j].i))
  /\ bg' = [bg EXCEPT ![j].pc = "header"]
  /\ UNCHANGED <<actx, indexes, header, lisCount, dctx, pool, pc, pend, call, ret>>

\* The background task: b.f.WriteAt of appendIndexEntry fails.
BgAppendIndexEntryFail(j) ==
  /\ pc # "returned"
  /\ bg[j].pc = "index"
  /\ bg' = [bg EXCEPT ![j].pc = "header"]
  /\ UNCHANGED <<actx, indexes, file, indexOffset, indexLength, header, lisCount, dctx, pool,
                 pc, pend, call, ret>>

\* The background task: b.persistHeader(ctx, m), then b.wg.Done().
BgPersistHeader(j) ==
  /\ pc # "returned"
  /\ bg[j].pc = "header"
  /\ header' = [persisted |-> TRUE, archived |-> bg[j].m.archived,
                writeOffset |-> bg[j].m.writeOffset,
                indexOffset |-> indexOffset, indexLength |-> indexLength]
  /\ bg' = RemoveAt(bg, j)
  /\ UNCHANGED <<actx, indexes, file, indexOffset, indexLength, lisCount, dctx, pool,
                 pc, pend, call, ret>>

\* ------------------------------------------------------------ specification
Next ==
  \/ \E c \in Ctxs : NewAppendContextNil(c)
  \/ \E c \in Ctxs, last \in pool : NewAppendContextLast(c, last)
  \/ \E c \in Ctxs, sizes \in EntrySizes : PrepareAppend(c, sizes)
  \/ \E c \in Ctxs : PrepareArchive(c)
  \/ \E frags \in FragLists, cancelled \in BOOLEAN : CommitAppend(frags, cancelled)
  \/ CommitLocked
  \/ CommitLockedArchived
  \/ CommitArchive
  \/ CommitTaken
  \/ \E j \in 1..Len(bg) : BgAppendIndexEntry(j)
  \/ \E j \in 1..Len(bg) : BgAppendIndexEntryFail(j)
  \/ \E j \in 1..Len(bg) : BgPersistHeader(j)

Spec == Init /\ [][Next]_vars

\* The block once its first entry, one cell long, is committed, with the
\* detached context that was taken from the block before that commit.
FirstCommitted == newFragment(DataOffset, <<wrapEntry(1, "CloudEvent", FirstSeq)>>)

InitAfterCommit ==
  /\ actx = [seq |-> FirstSeq + 1, offset |-> DataOffset + 1, archived |-> 0]
  /\ indexes = <<NewIndex(DataOffset, 1, Unmarshal(FirstCommitted.payload).entry)>>
  /\ file = FirstCommitted.payload
  /\ indexOffset = 0
  /\ indexLength = 0
  /\ header = [persisted |-> FALSE, archived |-> FALSE, writeOffset |-> DataOffset,
               indexOffset |-> 0, indexLength |-> 0]
  /\ bg = <<>>
  /\ lisCount = 0
  /\ dctx = [c \in Ctxs |-> [seq |-> FirstSeq, offset |-> DataOffset, archived |-> 0]]
  /\ pool = {}
  /\ pc = "idle"
  /\ pend = NoPend
  /\ call = NoCall
  /\ ret = NoRet

SpecAfterCommit == InitAfterCommit /\ [][Next]_vars

\* -------------------------------------------------- CommitAppend as a whole
\* CommitAppend(frags) run from block b to its return with every file write
\* succeeding: the block it leaves, what it returns, and whether it is caught
\* in the loop of buildIndexes instead of returning.
CommitAppendFn(b, frags) ==
  LET plan == CommitPlan(b.actx, frags) IN
  IF plan.kind = "ret" THEN [b |-> b, ret |-> plan.ret, loop |-> FALSE]
  ELSE IF plan.kind = "loop" THEN [b |-> b, ret |-> NoRet, loop |-> TRUE]
  ELSE
    LET p == [indexes |-> plan.indexes, entryCount |-> plan.entryCount,
              entrySize |-> Len(plan.data), archived |-> plan.archived]
        ls == lockedSection(b.actx, b.indexes, p)
    IN [b |-> [actx |-> ls.actx, indexes |-> ls.indexes,
               file |-> WriteAt(b.file, plan.data, plan.at),
               lisCount |-> b.lisCount + (IF plan.archived THEN 1 ELSE 0)],
        ret |-> Ret(plan.archived, "nil"),
        loop |-> FALSE]

\* ------------------------------------------------------- reading the claims
\* The cells of file f in [from, to).
FileRange(f, from, to) ==
  [i \in 1..(to - from) |->
     IF from - DataOffset + i <= Len(f) THEN f[from - DataOffset + i] ELSE Nil]

\* The bytes of frag are in the file.
OnFile(frag) == FileRange(file, StartOffset(frag), EndOffset(frag)) = frag.payload

\* Every fragment of the list ends at or before off.
AlreadyCommitted(frags, off) == \A i \in 1..Len(frags) : EndOffset(frags[i]) <= off

\* C1 (idempotent re-delivery): a CommitAppend whose fragments all end at or
\* before the canonical offset returns (false, nil) at once, and the canonical
\* context, the index table, the file and the listener are as the call found
\* them.
C1_IdempotentRedelivery ==
  (call.made /\ AlreadyCommitted(call.frags, call.pre.actx.offset))
    => (pc = "returned" /\ ret = Ret(FALSE, "nil") /\ Block = call.pre)

\* A re-delivered fragment whose bytes are in the file has been absorbed.
C1_Witness ==
  /\ pc = "returned"
  /\ Len(call.frags) > 0
  /\ AlreadyCommitted(call.frags, call.pre.actx.offset)
  /\ \A i \in 1..Len(call.frags) : OnFile(call.frags[i])
  /\ Len(indexes) > 0
  /\ ret = Ret(FALSE, "nil")

\* The first and the last entry of a fragment that is not empty.
FirstEntry(frag) == Unmarshal(frag.payload).entry
LastEntry(frag) == UnmarshalLast(frag.payload).entry

\* Some cell of the fragment belongs to an End entry.
HasEnd(frag) == \E i \in 1..FragSize(frag) : frag.payload[i].typ = "End"

\* f2 was prepared right after f1 on the same detached context.
BackToBack(f1, f2) ==
  /\ FragSize(f1) > 0 /\ FragSize(f2) > 0
  /\ StartOffset(f2) = EndOffset(f1)
  /\ SequenceNumber(FirstEntry(f2)) = SequenceNumber(LastEntry(f1)) + 1

\* CommitAppend(frags) after the call that gave r, if that call returned.
ThenCommit(r, frags) == IF r.loop THEN r ELSE CommitAppendFn(r.b, frags)

\* What a run of CommitAppend calls leaves behind, for comparing two runs.
Outcome(r) ==
  [actx |-> r.b.actx, indexes |-> r.b.indexes, file |-> r.b.file, loop |-> r.loop]

\* CommitAppend([f1]) then CommitAppend([f1, f2]) leaves what CommitAppend([f1, f2]) leaves.
Absorbs(f1, f2) ==
  Outcome(ThenCommit(CommitAppendFn(Block, <<f1>>), <<f1, f2>>))
    = Outcome(CommitAppendFn(Block, <<f1, f2>>))

\* C2 as stated (overlap absorption): from any block with no commit in flight,
\* for any fragments f1, f2 prepared back-to-back, CommitAppend([f1]) followed
\* by CommitAppend([f1, f2]) leaves the same canonical context, index table
\* and file bytes as a single CommitAppend([f1, f2]).
C2_OverlapAbsorption_Original ==
  pc = "idle" => \A f1 \in pool, f2 \in pool : BackToBack(f1, f2) => Absorbs(f1, f2)

\* C2 as amended (overlap absorption): the same, for f1 that holds no End entry.
C2_OverlapAbsorption ==
  pc = "idle" =>
    \A f1 \in pool, f2 \in pool : (BackToBack(f1, f2) /\ ~HasEnd(f1)) => Absorbs(f1, f2)

\* CommitAppend([f1, f2]) has returned after f1 alone had been committed: f1
\* was trimmed and the entries of f2 were indexed.
C2_Witness ==
  /\ pc = "returned"
  /\ Len(call.frags) = 2
  /\ BackToBack(call.frags[1], call.frags[2])
  /\ ~HasEnd(call.frags[1])
  /\ call.pre.actx.offset = EndOffset(call.frags[1])
  /\ OnFile(call.frags[1]) /\ OnFile(call.frags[2])
  /\ ret.err = "nil"
  /\ actx.offset = EndOffset(call.frags[2])
  /\ Len(indexes) > Len(call.pre.indexes)
  /\ Block = CommitAppendFn(call.pre, call.frags).b

\* The list without its leading fragments that end at or before off.
RECURSIVE DropWritten(_, _)
DropWritten(frags, off) ==
  IF frags = <<>> THEN <<>>
  ELSE IF EndOffset(Head(frags)) <= off THEN DropWritten(Tail(frags), off)
  ELSE frags

\* The fragments left of the call in flight or just returned once the leading
\* fragments that were already written are discarded.
Kept == DropWritten(call.frags, call.pre.actx.offset)

\* The first fragment left starts beyond the canonical offset.
Gap == Len(Kept) > 0 /\ StartOffset(Kept[1]) > call.pre.actx.offset

\* Each fragment left starts where the one before it ends.
Contiguous == \A i \in 2..Len(Kept) : EndOffset(Kept[i - 1]) = StartOffset(Kept[i])

RECURSIVE Payloads(_)
Payloads(frags) ==
  IF frags = <<>> THEN <<>> ELSE Head(frags).payload \o Payloads(Tail(frags))

\* The entries of a buffer of whole entries, in order.
RECURSIVE Decode(_)
Decode(data) ==
  IF data = <<>> THEN <<>>
  ELSE <<Unmarshal(data).entry>> \o Decode(SubSeq(data, Unmarshal(data).n + 1, Len(data)))

\* The call coalesces a buffer, and these are its entries.
HasBuffer == call.made /\ Len(Kept) > 0 /\ ~Gap /\ Contiguous
BufferEntries == Decode(Payloads(Kept))

\* The first kept fragment straddles the canonical offset and starts with an
\* entry that is already committed.
PartialOverlap ==
  /\ call.made
  /\ Len(Kept) > 0
  /\ StartOffset(Kept[1]) < call.pre.actx.offset
  /\ call.pre.actx.offset < EndOffset(Kept[1])
  /\ SequenceNumber(FirstEntry(Kept[1])) < call.pre.actx.seq

\* C3 (partial-overlap absorption terminates): a CommitAppend whose first kept
\* fragment straddles the canonical offset and starts with entries already
\* committed does not stay in the loop of buildIndexes; it returns, and the
\* index records it adds all lie at or after the canonical offset it found.
C3_PartialOverlapTerminates ==
  PartialOverlap =>
    /\ pc # "loop"
    /\ pc = "returned" =>
         \A i \in 1..Len(indexes) :
            i > Len(call.pre.indexes) => indexes[i].offset >= call.pre.actx.offset

\* The canonical context was archived when the call was made, and the call
\* hands over one fragment prepared on a fresh copy of that context.
OnArchivedBlock ==
  /\ call.made
  /\ call.pre.actx.archived = 1
  /\ Len(call.frags) = 1
  /\ FragSize(call.frags[1]) > 0
  /\ StartOffset(call.frags[1]) = call.pre.actx.offset
  /\ SequenceNumber(FirstEntry(call.frags[1])) = call.pre.actx.seq

\* C4 (an archived block accepts no further appends): a CommitAppend of a
\* fragment prepared on a fresh copy of an archived canonical context is
\* rejected, and the canonical context and the index table stay as they were.
C4_ArchivedAcceptsNoAppend ==
  (OnArchivedBlock /\ pc = "returned") =>
    (ret.err # "nil" /\ actx = call.pre.actx /\ indexes = call.pre.indexes)

\* C5 (dense index): the sequence numbers of the index table are FirstSeq,
\* FirstSeq+1, ... in table order, with no gap and no duplicate.
C5_DenseIndex ==
  \A i \in 1..Len(indexes) : indexes[i].seq = FirstSeq + (i - 1)

\* The index table stays dense as long as no commit is made on an archived
\* block: every commit that finds a dense table and a context that is not
\* archived leaves a dense table.
DenseUntilArchived ==
  /\ actx.archived = 0 => C5_DenseIndex
  /\ (pc = "returned" /\ call.pre.actx.archived = 0) => C5_DenseIndex

\* C6 (gap detection): when the first fragment left after discarding the
\* leading fragments that end at or before the canonical offset starts beyond
\* the canonical offset, CommitAppend returns the Internal error.
C6_GapDetection ==
  (call.made /\ Gap) => (pc = "returned" /\ ret = Ret(FALSE, "Internal"))

\* A gap behind a discarded fragment has been reported.
C6_Witness ==
  /\ pc = "returned"
  /\ Gap
  /\ Len(Kept) < Len(call.frags)
  /\ ret = Ret(FALSE, "Internal")

\* The scan of the entries as the specification describes it, from entry i:
\* an entry equal to expected is accepted, a smaller one is skipped while none
\* has been accepted, anything else is a violation; an accepted End ends it.
RECURSIVE SeqViolationFrom(_, _, _, _)
SeqViolationFrom(ents, i, expected, accepted) ==
  IF i > Len(ents) THEN FALSE
  ELSE IF ents[i].seq = expected
       THEN IF ents[i].typ = "End" THEN FALSE
            ELSE SeqViolationFrom(ents, i + 1, expected + 1, accepted + 1)
  ELSE IF ents[i].seq < expected /\ accepted = 0
       THEN SeqViolationFrom(ents, i + 1, expected, accepted)
  ELSE TRUE

\* The buffer of the call holds an entry above the expected sequence number,
\* or below it after an entry was accepted.
SeqViolation ==
  HasBuffer /\ SeqViolationFrom(BufferEntries, 1, call.pre.actx.seq, 0)

\* Support lemma: a CommitAppend whose buffer holds such an entry commits
\* nothing, and when it returns it returns Corrupted; the entries a commit
\* accepts carry exactly the sequence numbers b.actx.seq, b.actx.seq+1, ...
ViolationNeverCommits ==
  /\ SeqViolation =>
       /\ pc \in {"returned", "loop"}
       /\ pc = "returned" => ret = Ret(FALSE, "Corrupted")
  /\ (call.made /\ pc \in {"lock", "snapshot"}) =>
       /\ \A i \in 1..Len(pend.indexes) :
             pend.indexes[i].seq = call.pre.actx.seq + (i - 1)
       /\ pend.entryCount = Len(pend.indexes) + (IF pend.archived THEN 1 ELSE 0)

\* The buffer of the call holds an End entry with bytes after it.
EndNotLast ==
  HasBuffer /\ \E i \in 1..(Len(BufferEntries) - 1) : BufferEntries[i].typ = "End"

\* Support lemma: a CommitAppend whose buffer holds an End entry followed by
\* further bytes commits nothing, and when it returns it returns Corrupted
\* without archiving the block; a commit archives only when the End entry is
\* the last entry of its buffer.
EndNotLastNeverCommits ==
  /\ EndNotLast =>
       /\ pc \in {"returned", "loop"}
       /\ pc = "returned" =>
            (ret = Ret(FALSE, "Corrupted") /\ actx.archived = call.pre.actx.archived)
  /\ (call.made /\ ((pc \in {"lock", "snapshot"} /\ pend.archived) \/ ret.archived)) =>
       /\ HasBuffer
       /\ BufferEntries[Len(BufferEntries)].typ = "End"
       /\ ~EndNotLast

\* C7 (sequence validation, as stated): whenever the buffer of a CommitAppend
\* holds an entry above the expected sequence number, or below it after an
\* entry of this commit was accepted, the call returns Corrupted.
C7_ReturnsCorrupted ==
  SeqViolation => (pc = "returned" /\ ret = Ret(FALSE, "Corrupted"))

\* C8 (End-entry placement, as stated): whenever the buffer of a CommitAppend
\* holds an End entry followed by further bytes, the call returns Corrupted
\* and the block is not archived.
C8_ReturnsCorrupted ==
  EndNotLast =>
    /\ pc = "returned"
    /\ ret = Ret(FALSE, "Corrupted")
    /\ actx.archived = call.pre.actx.archived
\* What a block has committed: the file up to the canonical offset.
Committed(b) == SubSeq(b.file, 1, b.actx.offset - DataOffset)

\* Two results of CommitAppend are the same call result on the same block.
SameOutcome(r1, r2) ==
  /\ r1.ret = r2.ret
  /\ r1.loop = r2.loop
  /\ r1.b.actx = r2.b.actx
  /\ r1.b.indexes = r2.b.indexes
  /\ r1.b.lisCount = r2.b.lisCount
  /\ Committed(r1.b) = Committed(r2.b)

\* C9 (no partial mutation on failure): when CommitAppend has returned an
\* error, b.actx and b.indexes are as before the call, the listener was not
\* called, the committed part of the file is as before, and every following
\* CommitAppend gives the result it would have given had the failed call not
\* been made.
C9_NoPartialMutation ==
  (pc = "returned" /\ ret.err # "nil") =>
    /\ actx = call.pre.actx
    /\ indexes = call.pre.indexes
    /\ lisCount = call.pre.lisCount
    /\ Committed(Block) = Committed(call.pre)
    /\ \A fl \in FragLists :
          SameOutcome(CommitAppendFn(Block, fl), CommitAppendFn(call.pre, fl))

\* A write that failed after some cells reached the file, on a block where a
\* following CommitAppend commits.
C9_Witness ==
  /\ pc = "returned"
  /\ ret = Ret(FALSE, "IO")
  /\ file # call.pre.file
  /\ \E fl \in FragLists :
        /\ CommitAppendFn(Block, fl).ret.err = "nil"
        /\ CommitAppendFn(Block, fl).b.actx.offset > actx.offset

\* C10 (archival is signalled exactly once): OnArchived is called at most
\* once, and CommitAppend returns archived=true only on a call that found the
\* block not archived, archived it and called OnArchived once.
C10_ArchivedOnce ==
  /\ lisCount <= 1
  /\ (pc = "returned" /\ ret.archived) =>
       /\ call.pre.actx.archived = 0
       /\ actx.archived = 1
       /\ lisCount = call.pre.lisCount + 1
\* Every cell of the file in [from, to) has been written.
Written(from, to) ==
  \A i \in 1..(to - from) : FileRange(file, from, to)[i] # Nil

\* C11 (write before publish): in every state, the states between the file
\* write and the locked section of a CommitAppend included, each record of
\* b.indexes refers to a range [offset, offset+length) of the data region
\* that is written on the file and ends at or below b.actx.offset.
C11_WriteBeforePublish ==
  \A i \in 1..Len(indexes) :
     /\ indexes[i].offset >= DataOffset
     /\ indexes[i].length > 0
     /\ Written(indexes[i].offset, indexes[i].offset + indexes[i].length)
     /\ indexes[i].offset + indexes[i].length <= actx.offset

\* A commit on a block that holds records already has written its bytes above
\* b.actx.offset and has not yet entered its locked section.
C11_Witness ==
  /\ pc = "lock"
  /\ Len(indexes) > 0
  /\ Len(pend.indexes) > 0
  /\ pend.indexes[1].offset >= actx.offset
  /\ Written(actx.offset, actx.offset + pend.entrySize)
\* The whole End entry is on the file at cells p+1 .. p+EndSize of the data region.
EndAt(p) ==
  /\ p + EndSize <= Len(file)
  /\ \A k \in 1..EndSize : file[p + k].typ = "End" /\ file[p + k].k = k

EndOnFile == \E p \in 0..Len(file) : EndAt(p)

RECURSIVE SumOfSizes(_)
SumOfSizes(sizes) ==
  IF sizes = <<>> THEN 0 ELSE Head(sizes) + SumOfSizes(Tail(sizes))

\* PrepareAppend on the context a with entries of these sizes does what C13 says.
PreparesDensely(a, sizes) ==
  LET r == prepareAppend(a, sizes)
      n == Len(sizes)
      ents == Decode(r.frag.payload)
  IN /\ Len(r.seqs) = n
     /\ \A i \in 1..n : r.seqs[i] = a.seq + (i - 1)
     /\ StartOffset(r.frag) = a.offset
     /\ FragSize(r.frag) = SumOfSizes(sizes)
     /\ Len(ents) = n
     /\ \A i \in 1..n : ents[i].seq = a.seq + (i - 1) /\ ents[i].size = sizes[i]
     /\ r.actx.seq = a.seq + n
     /\ r.actx.offset = EndOffset(r.frag)
     /\ r.actx.archived = a.archived

\* C13 (PrepareAppend): on every detached context the program reaches and for
\* every list of entries, PrepareAppend returns the sequence numbers c.seq ..
\* c.seq+n-1 in order and a fragment that starts at c.offset and is as long as
\* the sum of the encoded sizes, and leaves c with seq + n and offset at the
\* end of the fragment; a second PrepareAppend on the context it leaves
\* continues at that offset with the next sequence number.
C13_PrepareAppend ==
  \A c \in Ctxs : dctx[c] # NoCtx =>
     \A sizes \in EntrySizes :
        LET r1 == prepareAppend(dctx[c], sizes) IN
        /\ PreparesDensely(dctx[c], sizes)
        /\ \A more \in EntrySizes :
              LET r2 == prepareAppend(r1.actx, more) IN
              /\ StartOffset(r2.frag) = EndOffset(r1.frag)
              /\ r2.seqs[1] = r1.seqs[Len(sizes)] + 1
              /\ r2.actx.seq = dctx[c].seq + Len(sizes) + Len(more)
              /\ r2.actx.offset = EndOffset(r2.frag)

\* Two PrepareAppend calls in a row on one context have produced a fragment
\* of two entries and the fragment after it.
C13_Witness ==
  \E c \in Ctxs, f \in pool, g \in pool :
     /\ Len(Decode(f.payload)) = 2
     /\ StartOffset(g) = EndOffset(f)
     /\ FirstEntry(g).typ = "CloudEvent"
     /\ FirstEntry(g).seq = LastEntry(f).seq + 1
     /\ dctx[c].offset = EndOffset(g)
     /\ dctx[c].seq = LastEntry(g).seq + 1
\* C14 (cancellation before the durable write): a CommitAppend entered with
\* a cancelled ctx, on fragments that take it to the file write, writes
\* nothing, leaves b.actx and b.indexes as they were and returns Cancelled.
C14_CancelledAborts ==
  (call.made /\ call.cancelled /\ CommitPlan(call.pre.actx, call.frags).kind = "write") =>
    /\ pc = "returned"
    /\ ret = Ret(FALSE, "Cancelled")
    /\ file = call.pre.file
    /\ actx = call.pre.actx
    /\ indexes = call.pre.indexes
\* The call in flight or just returned went through the file write.
Wrote == call.made /\ Len(Kept) > 0 /\ (pc \in {"lock", "snapshot"} \/ (pc = "returned" /\ ret.err = "nil"))

\* The bytes a call writes: from b.actx.offset to the end of its last fragment.
BytesToWrite == EndOffset(Kept[Len(Kept)]) - call.pre.actx.offset

\* What C15 says of b.actx.offset: the write returned the number of bytes
\* from the canonical offset to the end of the last fragment, and a
\* successful call leaves b.actx.offset at the end of its last fragment.
OffsetAdvancesByBytesWritten ==
  Wrote =>
    /\ BytesToWrite > 0
    /\ pc = "lock" => pend.entrySize = BytesToWrite
    /\ pc = "returned" => actx.offset = call.pre.actx.offset + BytesToWrite

\* C15 as stated: on every successful CommitAppend b.actx.seq advances by the
\* number of index records the call appends and b.actx.offset by the bytes
\* the call wrote.
C15_Advance_Original ==
  /\ (pc = "returned" /\ ret.err = "nil") =>
       actx.seq - call.pre.actx.seq = Len(indexes) - Len(call.pre.indexes)
  /\ OffsetAdvancesByBytesWritten

\* C15 (amended): on every successful CommitAppend b.actx.seq advances by the
\* number of index records the call appends, plus one when the call commits
\* the End entry, which gets no index record; b.actx.offset advances by the
\* bytes the call wrote, to the end of the last committed fragment.
C15_Advance ==
  /\ (pc = "returned" /\ ret.err = "nil") =>
       /\ actx.seq - call.pre.actx.seq =
            (Len(indexes) - Len(call.pre.indexes)) + (IF ret.archived THEN 1 ELSE 0)
       /\ SubSeq(indexes, 1, Len(call.pre.indexes)) = call.pre.indexes
  /\ OffsetAdvancesByBytesWritten

\* A call that committed entries and the End entry after them has returned.
C15_Witness ==
  /\ pc = "returned"
  /\ ret = Ret(TRUE, "nil")
  /\ Len(indexes) > Len(call.pre.indexes)
  /\ actx.seq = call.pre.actx.seq + (Len(indexes) - Len(call.pre.indexes)) + 1
  /\ actx.offset > call.pre.actx.offset + 1
\* C16 (header persistence after archival): the header the background task
\* persists is persisted after the trailing index record was written at the
\* snapshot's write offset and (indexOffset, indexLength) were recorded: it
\* carries indexOffset equal to the snapshot's write offset and indexLength > 0,
\* and the index record is on the file at that offset.
C16_HeaderAfterIndex ==
  header.persisted =>
    /\ header.archived
    /\ header.indexOffset = header.writeOffset
    /\ header.indexLength > 0
    /\ indexOffset = header.indexOffset
    /\ indexLength = header.indexLength
\* C17 (prepare phases leave the block untouched): every step that hands out
\* or advances a detached context or produces a fragment, taken at any point,
\* the middle of a CommitAppend included, leaves b.actx, b.indexes and the
\* file as they are, and the CommitAppend in flight where it is.
C17_PrepareLeavesBlock ==
  [][(dctx' # dctx \/ pool' # pool) => UNCHANGED <<actx, indexes, file, pc, pend>>]_vars

\* NewAppendContext(nil) has run between the file write and the locked section
\* of a CommitAppend, PrepareAppend has run on the context it returned, and the
\* block is as the CommitAppend left it.
C17_Witness ==
  /\ pc = "lock"
  /\ actx = call.pre.actx
  /\ indexes = call.pre.indexes
  /\ \E c \in Ctxs, f \in pool :
        /\ dctx[c].offset = EndOffset(f)
        /\ StartOffset(f) = NextActx.offset
        /\ NextActx.offset > actx.offset
        /\ FirstEntry(f).typ = "CloudEvent"
        /\ \A i \in 1..Len(call.frags) : call.frags[i] # f
\* C18 (snapshot consistency of NewAppendContext(nil)): the context a
\* NewAppendContext(nil) step returns is the (seq, offset, archived) triple of
\* b.actx before or after the locked section of the CommitAppend in flight,
\* never fields of the two mixed.
C18_SnapshotConsistent ==
  [][\A c \in Ctxs : NewAppendContextNil(c) => dctx'[c] \in {actx, NextActx}]_vars
\* The prepare calls made on one detached context: PrepareAppend calls, each
\* given by the sizes of its entries, optionally ended by one PrepareArchive,
\* written <<>>.
PreparePlans ==
  LET appends == UNION {[1..n -> EntrySizes] : n \in 0..2} IN
  {q \in appends \cup {Append(p, <<>>) : p \in appends} : Len(q) > 0}

\* The fragments the calls of plan produce on context a, and the context left.
RECURSIVE PrepareAll(_, _)
PrepareAll(a, plan) ==
  IF plan = <<>> THEN [frags |-> <<>>, actx |-> a]
  ELSE LET r == IF Head(plan) = <<>> THEN prepareArchive(a)
                ELSE prepareAppend(a, Head(plan))
           rest == PrepareAll(r.actx, Tail(plan))
       IN [frags |-> <<r.frag>> \o rest.frags, actx |-> rest.actx]

\* The block after CommitAppend calls on frags in order, a call ending after
\* each fragment whose position is in cuts and after the last; ok is FALSE
\* when a call returned an error or did not return.
RECURSIVE CommitSplit(_, _, _, _, _)
CommitSplit(b, frags, cuts, i, group) ==
  IF i > Len(frags) THEN [b |-> b, ok |-> TRUE]
  ELSE IF i \in cuts \/ i = Len(frags)
  THEN LET r == CommitAppendFn(b, Append(group, frags[i])) IN
       IF r.loop \/ r.ret.err # "nil" THEN [b |-> r.b, ok |-> FALSE]
       ELSE CommitSplit(r.b, frags, cuts, i + 1, <<>>)
  ELSE CommitSplit(b, frags, cuts, i + 1, Append(group, frags[i]))

\* C19 (commit reconciles canonical with detached): from a context copied
\* from b.actx while no CommitAppend is in flight, for every sequence of
\* PrepareAppend calls optionally ended by one PrepareArchive and every split
\* of the produced fragments, in order, into CommitAppend calls, every call
\* succeeds and b.actx ends with the seq, offset and archived of the detached
\* context.
C19_CommitReconciles ==
  (pc = "idle" /\ \E c \in Ctxs : dctx[c] = actx) =>
    \A plan \in PreparePlans :
       LET p == PrepareAll(actx, plan) IN
       \A cuts \in SUBSET (1..(Len(plan) - 1)) :
          LET r == CommitSplit(Block, p.frags, cuts, 1, <<>>) IN
          r.ok /\ r.b.actx = p.actx

\* Such a copy has been taken of a block that holds committed entries, and the
\* fragments of PrepareAppend, PrepareAppend, PrepareArchive on it, committed
\* one by one, archive the block.
C19_Witness ==
  /\ pc = "idle"
  /\ Len(indexes) > 0
  /\ actx.archived = 0
  /\ \E c \in Ctxs : dctx[c] = actx
  /\ LET p == PrepareAll(actx, <<<<1>>, <<2, 1>>, <<>>>>)
         r == CommitSplit(Block, p.frags, {1, 2}, 1, <<>>)
     IN /\ r.ok
        /\ r.b.actx = p.actx
        /\ r.b.actx.archived = 1
        /\ r.b.actx.seq = actx.seq + 4
\* C20 (index records tile the data region): whenever no CommitAppend is in
\* flight, the first index record starts at dataOffset, each record ends where
\* the next one starts, and while the block is not archived the last record
\* ends at b.actx.offset.
C20_IndexTiles ==
  (pc = "idle" /\ Len(indexes) > 0) =>
    /\ indexes[1].offset = DataOffset
    /\ \A i \in 1..(Len(indexes) - 1) :
          /\ indexes[i].length > 0
          /\ indexes[i].offset + indexes[i].length = indexes[i + 1].offset
    /\ actx.archived = 0 =>
          indexes[Len(indexes)].offset + indexes[Len(indexes)].length = actx.offset
====
